---------------------------- MODULE Spec2Model ----------------------------
(***************************************************************************)
(* Model of concatenator.py: the allowlist classifier is_allowed, the      *)
(* natural-order sort, the list-file importer parse_file_list, the two     *)
(* concatenation entry points, and the selection handlers of               *)
(* TextFileConcatenatorGUI.                                                *)
(*                                                                         *)
(* Text is a sequence of characters, one string per character.  An ASCII   *)
(* character is its own one-character string; a non-ASCII character is     *)
(* named by its code point ("U+00E9").  File data is a sequence of bytes:  *)
(* an ASCII byte is written as its character, a high byte as "xNN".        *)
(* os.path is posixpath (separator "/", os.path.normcase the identity).    *)
(***************************************************************************)
EXTENDS Integers, Sequences, FiniteSets, TLC

\* ------------------------------------------------------------------------
\* Bounds of the model
\* ------------------------------------------------------------------------
\* longest selection the handlers may build
MaxSel == 2
\* most paths one file dialog answer holds
MaxPick == 1
\* rows of the listbox in the specification of the rows
MaxRows == 4
\* longest sequence handed to natsorted in the sort specification
MaxSortLen == 3
\* longest path list handed to concatenate_file_list
MaxList == 2
\* longest base name drawn from the small alphabet for is_allowed
MaxName == 3

\* ------------------------------------------------------------------------
\* Characters and strings (Python str)
\* ------------------------------------------------------------------------
UPPER == <<"A", "B", "C", "D", "E", "F", "G", "H", "I", "J", "K", "L", "M",
           "N", "O", "P", "Q", "R", "S", "T", "U", "V", "W", "X", "Y", "Z",
           "U+00C1", "U+00C3", "U+0413", "U+0403">>
LOWER == <<"a", "b", "c", "d", "e", "f", "g", "h", "i", "j", "k", "l", "m",
           "n", "o", "p", "q", "r", "s", "t", "u", "v", "w", "x", "y", "z",
           "U+00E1", "U+00E3", "U+0433", "U+0453">>
DIGITS == <<"0", "1", "2", "3", "4", "5", "6", "7", "8", "9">>

Range(s) == {s[i] : i \in DOMAIN s}
SetMin(S) == CHOOSE x \in S : \A y \in S : x <= y
SetMax(S) == CHOOSE x \in S : \A y \in S : x >= y

\* s[i:]  and  s[:i]  with 1-based i
From(s, i) == SubSeq(s, i, Len(s))
Upto(s, i) == SubSeq(s, 1, i)

UpperChars == Range(UPPER)
LowerChars == Range(LOWER)
DigitChars == Range(DIGITS)
LowerOf == [c \in UpperChars |-> LOWER[CHOOSE i \in DOMAIN UPPER : UPPER[i] = c]]

\* str.lower on one character
lower_char(c) == IF c \in UpperChars THEN LowerOf[c] ELSE c

\* str.lower
lower(s) == [i \in DOMAIN s |-> lower_char(s[i])]

\* str.isspace on one character
IsSpace(c) == c \in {" ", "\n", "\t", "\r"}

\* str.isdigit on one character
IsDigit(c) == c \in DigitChars

\* the regular expression class \w
IsWord(c) ==
    \/ c \in UpperChars \/ c \in LowerChars \/ c \in DigitChars \/ c = "_"
    \/ c \in {"U+00E9", "U+00FB", "U+00FF", "U+00EF", "U+043F", "U+0457",
              "U+FA41", "U+FA69", "U+FA7B", "U+FA7F",
              "U+FEC1", "U+FEE9", "U+FEFB"}

\* the first index from i upwards (step 1) or downwards (step -1) where
\* s holds a character that is no whitespace, or 0
RECURSIVE skip_space(_, _, _)
skip_space(s, i, step) ==
    IF i < 1 \/ i > Len(s) THEN 0
    ELSE IF ~IsSpace(s[i]) THEN i
    ELSE skip_space(s, i + step, step)

\* str.strip()
strip(s) ==
    LET first == skip_space(s, 1, 1)
    IN  IF first = 0 THEN <<>> ELSE SubSeq(s, first, skip_space(s, Len(s), -1))

\* str.startswith / str.endswith for a one-character argument
startswith(s, c) == Len(s) > 0 /\ s[1] = c
endswith(s, c) == Len(s) > 0 /\ s[Len(s)] = c

\* the first index from i upwards (step 1) or downwards (step -1) where
\* s holds c, or 0
RECURSIVE scan(_, _, _, _)
scan(s, c, i, step) ==
    IF i < 1 \/ i > Len(s) THEN 0
    ELSE IF s[i] = c THEN i
    ELSE scan(s, c, i + step, step)

\* str.rfind / str.find for a one-character argument: 0 when absent
rfind(s, c) == scan(s, c, Len(s), -1)
find_from(s, c, start) == scan(s, c, start, 1)

\* str.split("/")
RECURSIVE split_slash(_)
split_slash(s) ==
    LET i == find_from(s, "/", 1)
    IN  IF i = 0 THEN <<s>>
        ELSE <<Upto(s, i - 1)>> \o split_slash(From(s, i + 1))

\* "/".join(comps)
RECURSIVE join_slash(_)
join_slash(comps) ==
    IF comps = <<>> THEN <<>>
    ELSE IF Len(comps) = 1 THEN comps[1]
    ELSE comps[1] \o <<"/">> \o join_slash(Tail(comps))

\* str.rstrip("/")
RECURSIVE rstrip_slash(_)
rstrip_slash(s) ==
    IF s # <<>> /\ s[Len(s)] = "/" THEN rstrip_slash(Upto(s, Len(s) - 1)) ELSE s

\* ------------------------------------------------------------------------
\* os.path (posixpath) and the process environment
\* ------------------------------------------------------------------------
\* os.getcwd()
Cwd == <<"/", "w">>

\* os.environ: HOME, a variable naming the source directory, an empty one
environ ==
    (<<"H", "O", "M", "E">> :> <<"/", "h">>)
    @@ (<<"D">> :> <<"/", "d">>)
    @@ (<<"E">> :> <<>>)

basename(p) == From(p, rfind(p, "/") + 1)

dirname(p) ==
    LET head == Upto(p, rfind(p, "/"))
    IN  IF head # <<>> /\ rstrip_slash(head) # <<>> THEN rstrip_slash(head)
        ELSE head

isabs(p) == startswith(p, "/")

path_join(a, b) ==
    IF startswith(b, "/") THEN b
    ELSE IF a = <<>> \/ endswith(a, "/") THEN a \o b
    ELSE a \o <<"/">> \o b

\* the loop of posixpath.normpath over the components
RECURSIVE norm_comps(_, _, _)
norm_comps(comps, new_comps, initial_slashes) ==
    IF comps = <<>> THEN new_comps
    ELSE LET comp == Head(comps)
             n == Len(new_comps)
         IN  IF comp = <<>> \/ comp = <<".">>
             THEN norm_comps(Tail(comps), new_comps, initial_slashes)
             ELSE IF \/ comp # <<".", ".">>
                     \/ (initial_slashes = 0 /\ n = 0)
                     \/ (n > 0 /\ new_comps[n] = <<".", ".">>)
             THEN norm_comps(Tail(comps), Append(new_comps, comp), initial_slashes)
             ELSE IF n > 0
             THEN norm_comps(Tail(comps), Upto(new_comps, n - 1), initial_slashes)
             ELSE norm_comps(Tail(comps), new_comps, initial_slashes)

normpath(p) ==
    IF p = <<>> THEN <<".">>
    ELSE LET initial_slashes ==
                 IF ~startswith(p, "/") THEN 0
                 ELSE IF Len(p) >= 2 /\ p[2] = "/" /\ ~(Len(p) >= 3 /\ p[3] = "/")
                 THEN 2
                 ELSE 1
             body == join_slash(norm_comps(split_slash(p), <<>>, initial_slashes))
             out == [i \in 1..initial_slashes |-> "/"] \o body
         IN  IF out = <<>> THEN <<".">> ELSE out

abspath(p) == normpath(IF isabs(p) THEN p ELSE path_join(Cwd, p))

normcase(p) == p

\* os.path.splitext: the extension starts at the last dot unless only
\* dots precede it in the base name
splitext(p) ==
    LET sepIndex == rfind(p, "/")
        dotIndex == rfind(p, ".")
    IN  IF dotIndex > sepIndex
           /\ \E k \in (sepIndex + 1)..(dotIndex - 1) : p[k] # "."
        THEN <<Upto(p, dotIndex - 1), From(p, dotIndex)>>
        ELSE <<p, <<>>>>

\* os.path.expanduser: only the current user's "~" is known to pwd
expanduser(p) ==
    IF ~startswith(p, "~") THEN p
    ELSE LET f == find_from(p, "/", 2)
             i == IF f = 0 THEN Len(p) + 1 ELSE f
         IN  IF i # 2 THEN p
             ELSE LET out == rstrip_slash(environ[<<"H", "O", "M", "E">>]) \o From(p, i)
                  IN  IF out = <<>> THEN <<"/">> ELSE out

\* last index of the match of  \$(\w+|\{[^}]*\})  that starts at k, or k
var_match_end(p, k) ==
    IF k >= Len(p) THEN k
    ELSE IF IsWord(p[k + 1])
    THEN LET stop == {j \in (k + 1)..Len(p) : ~IsWord(p[j])}
         IN  IF stop = {} THEN Len(p) ELSE SetMin(stop) - 1
    ELSE IF p[k + 1] = "{"
    THEN LET close == find_from(p, "}", k + 2) IN IF close = 0 THEN k ELSE close
    ELSE k

\* os.path.expandvars, resuming the search at index i
RECURSIVE expandvars_from(_, _)
expandvars_from(p, i) ==
    LET starts == {k \in i..Len(p) : p[k] = "$" /\ var_match_end(p, k) > k}
    IN  IF starts = {} THEN p
        ELSE LET k == SetMin(starts)
                 j == var_match_end(p, k)
                 raw == SubSeq(p, k + 1, j)
                 name == IF startswith(raw, "{") /\ endswith(raw, "}")
                         THEN SubSeq(raw, 2, Len(raw) - 1)
                         ELSE raw
             IN  IF name \in DOMAIN environ
                 THEN LET head == Upto(p, k - 1) \o environ[name]
                      IN  expandvars_from(head \o From(p, j + 1), Len(head) + 1)
                 ELSE expandvars_from(p, j + 1)

expandvars(p) == expandvars_from(p, 1)

\* ------------------------------------------------------------------------
\* The allowlist classifier
\* ------------------------------------------------------------------------
ALLOWED_EXTS == {
    <<".", "t", "x", "t">>, <<".", "m", "d">>,
    <<".", "m", "a", "r", "k", "d", "o", "w", "n">>, <<".", "r", "s", "t">>,
    <<".", "h", "t", "m", "l">>, <<".", "h", "t", "m">>,
    <<".", "x", "m", "l">>, <<".", "c", "s", "v">>, <<".", "t", "s", "v">>,
    <<".", "i", "n", "i">>, <<".", "c", "f", "g">>,
    <<".", "c", "o", "n", "f">>,
    <<".", "p", "r", "o", "p", "e", "r", "t", "i", "e", "s">>,
    <<".", "e", "n", "v">>, <<".", "j", "s", "o", "n">>,
    <<".", "y", "a", "m", "l">>, <<".", "y", "m", "l">>,
    <<".", "t", "o", "m", "l">>, <<".", "p", "y">>, <<".", "j", "s">>,
    <<".", "j", "s", "x">>, <<".", "t", "s">>, <<".", "t", "s", "x">>,
    <<".", "j", "a", "v", "a">>, <<".", "c">>, <<".", "c", "p", "p">>,
    <<".", "h">>, <<".", "h", "p", "p">>, <<".", "c", "s">>,
    <<".", "g", "o">>, <<".", "r", "b">>, <<".", "p", "h", "p">>,
    <<".", "s", "w", "i", "f", "t">>, <<".", "k", "t">>, <<".", "s", "h">>,
    <<".", "b", "a", "s", "h">>, <<".", "z", "s", "h">>,
    <<".", "f", "i", "s", "h">>, <<".", "p", "s", "1">>,
    <<".", "b", "a", "t">>, <<".", "s", "q", "l">>, <<".", "p", "l">>,
    <<".", "l", "u", "a">>, <<".", "r">>, <<".", "s", "c", "a", "l", "a">>,
    <<".", "c", "l", "j">>, <<".", "g", "r", "o", "o", "v", "y">>,
    <<".", "d", "a", "r", "t">>, <<".", "c", "s", "s">>,
    <<".", "s", "c", "s", "s">>, <<".", "l", "e", "s", "s">>
}

ALLOWED_NAMES == {
    <<"l", "i", "c", "e", "n", "s", "e">>,
    <<"m", "a", "k", "e", "f", "i", "l", "e">>,
    <<"d", "o", "c", "k", "e", "r", "f", "i", "l", "e">>,
    <<".", "e", "d", "i", "t", "o", "r", "c", "o", "n", "f", "i", "g">>,
    <<".", "g", "i", "t", "a", "t", "t", "r", "i", "b", "u", "t", "e", "s">>,
    <<".", "g", "i", "t", "i", "g", "n", "o", "r", "e">>,
    <<".", "d", "o", "c", "k", "e", "r", "i", "g", "n", "o", "r", "e">>
}

\* the classifier without lower(): names and extensions compared as typed
is_allowed_case_sensitive(path) ==
    LET name == basename(path)
    IN  IF name \in ALLOWED_NAMES THEN TRUE
        ELSE splitext(name)[2] \in ALLOWED_EXTS

is_allowed(path) ==
    LET name == basename(path)
        lower_name == lower(name)
    IN  IF lower_name \in ALLOWED_NAMES THEN TRUE
        ELSE splitext(lower_name)[2] \in ALLOWED_EXTS

\* ------------------------------------------------------------------------
\* natsorted with the default algorithm: unsigned integers, case-sensitive
\* text, the whole string one key.  Every name the model sorts is ASCII,
\* on which natsort's Unicode normalisation is the identity.
\* ------------------------------------------------------------------------
ASCII == <<
    " ", "!", "\"", "#", "$", "%", "&", "'",
    "(", ")", "*", "+", ",", "-", ".", "/",
    "0", "1", "2", "3", "4", "5", "6", "7",
    "8", "9", ":", ";", "<", "=", ">", "?",
    "@", "A", "B", "C", "D", "E", "F", "G",
    "H", "I", "J", "K", "L", "M", "N", "O",
    "P", "Q", "R", "S", "T", "U", "V", "W",
    "X", "Y", "Z", "[", "\\", "]", "^", "_",
    "U+0060", "a", "b", "c", "d", "e", "f", "g",
    "h", "i", "j", "k", "l", "m", "n", "o",
    "p", "q", "r", "s", "t", "u", "v", "w",
    "x", "y", "z", "{", "|", "}", "~"
>>

\* ord(c) of a printable ASCII character (the table names the backquote,
\* which a TLA+ string cannot hold, by its code point)
OrdOf == [c \in Range(ASCII) |-> 31 + (CHOOSE i \in DOMAIN ASCII : ASCII[i] = c)]
ord(c) == OrdOf[c]

\* a < b for two str, by code point
RECURSIVE str_less(_, _)
str_less(a, b) ==
    IF b = <<>> THEN FALSE
    ELSE IF a = <<>> THEN TRUE
    ELSE IF a[1] # b[1] THEN ord(a[1]) < ord(b[1])
    ELSE str_less(Tail(a), Tail(b))

\* int(run) of a run of decimal digits
RECURSIVE int_of(_)
int_of(run) ==
    IF run = <<>> THEN 0
    ELSE 10 * int_of(Upto(run, Len(run) - 1))
         + (CHOOSE d \in 0..9 : DIGITS[d + 1] = run[Len(run)])

\* length of the maximal run at the head of s whose characters all have
\* IsDigit = digit
run_length(s, digit) ==
    LET stop == {i \in DOMAIN s : IsDigit(s[i]) # digit}
    IN  IF stop = {} THEN Len(s) ELSE SetMin(stop) - 1

\* one element of a key: a text run, or the value of a digit run
TextPart(t) == [num |-> FALSE, text |-> t, val |-> 0]
NumPart(t) == [num |-> TRUE, text |-> <<>>, val |-> int_of(t)]

\* the split of s into alternating runs
RECURSIVE split_runs(_)
split_runs(s) ==
    IF s = <<>> THEN <<>>
    ELSE LET digit == IsDigit(s[1])
             n == run_length(s, digit)
             part == IF digit THEN NumPart(Upto(s, n)) ELSE TextPart(Upto(s, n))
         IN  <<part>> \o split_runs(From(s, n + 1))

\* the key of a string beginning with a number starts with an empty text
natsort_key(s) ==
    LET runs == split_runs(s)
    IN  IF runs # <<>> /\ runs[1].num THEN <<TextPart(<<>>)>> \o runs ELSE runs

\* ka < kb as Python compares tuples
RECURSIVE key_less(_, _)
key_less(ka, kb) ==
    IF kb = <<>> THEN FALSE
    ELSE IF ka = <<>> THEN TRUE
    ELSE IF ka[1] = kb[1] THEN key_less(Tail(ka), Tail(kb))
    ELSE IF ka[1].num THEN ka[1].val < kb[1].val
    ELSE str_less(ka[1].text, kb[1].text)

\* the comparison of plain sorted(): character by character
nat_less_by_chars(x, y) == str_less(x, y)

\* x sorts before y
nat_less(x, y) == key_less(natsort_key(x), natsort_key(y))

\* sorted() is stable: x goes behind every element that is not greater
RECURSIVE insert_sorted(_, _)
insert_sorted(sorted, x) ==
    IF sorted = <<>> THEN <<x>>
    ELSE IF nat_less(x, sorted[1]) THEN <<x>> \o sorted
    ELSE <<sorted[1]>> \o insert_sorted(Tail(sorted), x)

RECURSIVE natsorted(_)
natsorted(seq) ==
    IF seq = <<>> THEN <<>>
    ELSE insert_sorted(natsorted(Upto(seq, Len(seq) - 1)), seq[Len(seq)])

\* ------------------------------------------------------------------------
\* Text decoding: open(path, "r", encoding=enc)
\* ------------------------------------------------------------------------
HighBytes == {"xC3", "xA9", "x81", "xEF", "xBB", "xBF"}

\* the two-byte UTF-8 sequences over HighBytes
UTF8_2 ==
    (<<"xC3", "x81">> :> "U+00C1") @@ (<<"xC3", "xA9">> :> "U+00E9")
    @@ (<<"xC3", "xBB">> :> "U+00FB") @@ (<<"xC3", "xBF">> :> "U+00FF")

\* the three-byte UTF-8 sequences over HighBytes
UTF8_3 ==
    (<<"xEF", "x81", "x81">> :> "U+F041") @@ (<<"xEF", "x81", "xA9">> :> "U+F069")
    @@ (<<"xEF", "x81", "xBB">> :> "U+F07B") @@ (<<"xEF", "x81", "xBF">> :> "U+F07F")
    @@ (<<"xEF", "xA9", "x81">> :> "U+FA41") @@ (<<"xEF", "xA9", "xA9">> :> "U+FA69")
    @@ (<<"xEF", "xA9", "xBB">> :> "U+FA7B") @@ (<<"xEF", "xA9", "xBF">> :> "U+FA7F")
    @@ (<<"xEF", "xBB", "x81">> :> "U+FEC1") @@ (<<"xEF", "xBB", "xA9">> :> "U+FEE9")
    @@ (<<"xEF", "xBB", "xBB">> :> "U+FEFB") @@ (<<"xEF", "xBB", "xBF">> :> "U+FEFF")
    @@ (<<"xEF", "xBF", "x81">> :> "U+FFC1") @@ (<<"xEF", "xBF", "xA9">> :> "U+FFE9")
    @@ (<<"xEF", "xBF", "xBB">> :> "U+FFFB") @@ (<<"xEF", "xBF", "xBF">> :> "U+FFFF")

\* the single-byte code pages: cp1252 leaves 0x81 undefined, cp1251 is
\* the Cyrillic ANSI code page
CP1252 ==
    ("xC3" :> "U+00C3") @@ ("xA9" :> "U+00A9") @@ ("xEF" :> "U+00EF")
    @@ ("xBB" :> "U+00BB") @@ ("xBF" :> "U+00BF")
LATIN1 == CP1252 @@ ("x81" :> "U+0081")
CP1251 ==
    ("xC3" :> "U+0413") @@ ("xA9" :> "U+00A9") @@ ("x81" :> "U+0403")
    @@ ("xEF" :> "U+043F") @@ ("xBB" :> "U+00BB") @@ ("xBF" :> "U+0457")

Decoded(text) == [ok |-> TRUE, text |-> text]
DecodeError == [ok |-> FALSE, text |-> <<>>]

\* c followed by the decoding of the rest, if the rest decodes
Prepend(c, rest) == IF rest.ok THEN Decoded(<<c>> \o rest.text) ELSE DecodeError

RECURSIVE decode_utf8(_)
decode_utf8(data) ==
    IF data = <<>> THEN Decoded(<<>>)
    ELSE IF data[1] \notin HighBytes
    THEN Prepend(data[1], decode_utf8(Tail(data)))
    ELSE IF Len(data) >= 2 /\ Upto(data, 2) \in DOMAIN UTF8_2
    THEN Prepend(UTF8_2[Upto(data, 2)], decode_utf8(From(data, 3)))
    ELSE IF Len(data) >= 3 /\ Upto(data, 3) \in DOMAIN UTF8_3
    THEN Prepend(UTF8_3[Upto(data, 3)], decode_utf8(From(data, 4)))
    ELSE DecodeError

\* decoding byte by byte through a code page
decode_table(data, table) ==
    IF \A i \in DOMAIN data : data[i] \in HighBytes => data[i] \in DOMAIN table
    THEN Decoded([i \in DOMAIN data |->
                    IF data[i] \in HighBytes THEN table[data[i]] ELSE data[i]])
    ELSE DecodeError

decode(enc, data) ==
    CASE enc = "utf-8-sig" ->
            IF Len(data) >= 3 /\ Upto(data, 3) = <<"xEF", "xBB", "xBF">>
            THEN decode_utf8(From(data, 4))
            ELSE decode_utf8(data)
      [] enc = "utf-8" -> decode_utf8(data)
      [] enc = "cp1252" -> decode_table(data, CP1252)
      [] enc = "latin-1" -> decode_table(data, LATIN1)
      [] enc = "cp1251" -> decode_table(data, CP1251)

\* universal newlines on reading: "\r\n" and "\r" become "\n"
RECURSIVE translate_newlines(_)
translate_newlines(text) ==
    IF text = <<>> THEN <<>>
    ELSE IF text[1] = "\r"
    THEN <<"\n">> \o translate_newlines(
             IF Len(text) >= 2 /\ text[2] = "\n" THEN From(text, 3) ELSE Tail(text))
    ELSE <<text[1]>> \o translate_newlines(Tail(text))

\* f.readlines(): every line keeps its "\n"
RECURSIVE readlines(_)
readlines(text) ==
    IF text = <<>> THEN <<>>
    ELSE LET i == find_from(text, "\n", 1)
         IN  IF i = 0 THEN <<text>>
             ELSE <<Upto(text, i)>> \o readlines(From(text, i + 1))

\* ------------------------------------------------------------------------
\* State
\* ------------------------------------------------------------------------
VARIABLES
    fs,             \* the filesystem: absolute path -> [kind, readable, data]
    preferred,      \* locale.getpreferredencoding(False)
    mode_var,       \* self.mode_var: "folder" or "files"
    selected_files, \* self.selected_files
    listbox,        \* the rows of self.file_listbox: [item, selected]
    list_path,      \* the last handler's list_path (add_files_from_list)
    p_existing,     \* existing of its parse_file_list call
    p_lines,        \* lines of its parse_file_list call
    result,         \* the last handler's result (add_files_from_list)
    message,        \* the message boxes the last handler showed, or its exception
    fn,             \* the concatenation entry point last called
    folder_path,    \* its folder_path argument (concatenate_text_files)
    file_paths,     \* the list that reached concatenate_file_list
    output,         \* the file at output_path: [exists, writable, text]
    error,          \* the exception the last concatenation call raised
    console,        \* the paths of its "Error reading" prints
    path,           \* classifier: the path given to is_allowed
    allowed,        \* classifier: the answer
    names,          \* sort: the sequence given to natsorted
    sorted_names,   \* sort: the sequence returned
    pc              \* classifier and sort: "call" before the call, "return" after;
                    \* rows: "move_up" or "move_down" when that handler
                    \* has just returned

env_vars == <<fs, preferred>>
gui_vars == <<mode_var, selected_files, listbox, list_path, p_existing, p_lines, result, message>>
concat_vars == <<fn, folder_path, file_paths, output, error, console>>
allowed_vars == <<path, allowed>>
sort_vars == <<names, sorted_names>>
vars == <<env_vars, gui_vars, concat_vars, allowed_vars, sort_vars, pc>>

\* ------------------------------------------------------------------------
\* The filesystem the model runs on
\* ------------------------------------------------------------------------
Dir == [kind |-> "dir", readable |-> TRUE, data |-> <<>>]
File(data) == [kind |-> "file", readable |-> TRUE, data |-> data]

\* the list files of directory /m
M1 == <<"#", " ", "l", "i", "s", "t", "\n", "\n",
        ".", ".", "/", "d", "/", "a", ".", "c", "\n",
        "/", "d", "/", "b", ".", "h", "\n",
        "n", "o", "p", "e", ".", "c", "\n",
        "/", "e", "/", "x", ".", "z", "\n">>
M2 == <<"\"", "/", "d", "/", "a", ".", "c", "\"", "\n",
        "'", "q", ".", "c", "'", "\n",
        "$", "D", "/", "f", "2", ".", "c", "\n",
        "~", "/", "x", ".", "z", "\n",
        "/", "d", "/", ".", "/", "a", ".", "c", "\n",
        "\"", "\"", "\n">>
M3 == <<"xEF", "xBB", "xBF", "/", "d", "/", "f", "1", "0", ".", "c", "\r", "\n",
        "xC3", "xA9", ".", "c", "\r", "\n">>
M4 == <<"/", "d", "/", "f", "2", ".", "c", "\n",
        "x81", ".", "c", "\n">>
M5 == <<" ", "$", "{", "D", "}", "/", "a", ".", "c", " ", "\n",
        "xA9", ".", "c", "\n",
        ";", " ", "x", "\n",
        "$", "E", "\n">>

P_a == <<"/", "d", "/", "a", ".", "c">>
P_b == <<"/", "d", "/", "b", ".", "h">>
P_f2 == <<"/", "d", "/", "f", "2", ".", "c">>
P_f10 == <<"/", "d", "/", "f", "1", "0", ".", "c">>
P_x == <<"/", "e", "/", "x", ".", "z">>
P_m1 == <<"/", "m", "/", "m", "1", ".", "t", "x", "t">>
P_m2 == <<"/", "m", "/", "m", "2", ".", "t", "x", "t">>
P_m3 == <<"/", "m", "/", "m", "3", ".", "t", "x", "t">>
P_m4 == <<"/", "m", "/", "m", "4", ".", "t", "x", "t">>
P_m5 == <<"/", "m", "/", "m", "5", ".", "t", "x", "t">>
P_none == <<"/", "m", "/", "n", "o", "n", "e", ".", "t", "x", "t">>

\* everything but /d/b.h, which the initial state decides
FsBase ==
    (<<"/", "d">> :> Dir) @@ (<<"/", "m">> :> Dir) @@ (<<"/", "e">> :> Dir)
    @@ (<<"/", "w">> :> Dir) @@ (<<"/", "h">> :> Dir)
    @@ (<<"/", "e", "/", "k", ".", "c">> :> Dir)
    @@ (P_a :> File(<<"A">>))
    @@ (P_f2 :> File(<<"2", "\r", "\n", "3">>))
    @@ (P_f10 :> File(<<"1", "0", "\n">>))
    @@ (P_x :> File(<<"Z">>))
    @@ (P_m1 :> File(M1)) @@ (P_m2 :> File(M2)) @@ (P_m3 :> File(M3))
    @@ (P_m4 :> File(M4)) @@ (P_m5 :> File(M5))

\* /d/b.h is a good file, missing, unreadable, or not valid UTF-8
FsGood == FsBase @@ (P_b :> File(<<"B", "xC3", "xA9">>))
FsMissing == FsBase
FsDenied == FsBase @@ (P_b :> [kind |-> "file", readable |-> FALSE, data |-> <<"B">>])
FsUndecodable == FsBase @@ (P_b :> File(<<"B", "x81">>))
FsChoices == {FsGood, FsMissing, FsDenied, FsUndecodable}

\* the values of locale.getpreferredencoding(False) the model runs under
Encodings == {"utf-8", "cp1251"}

\* the kernel resolves a path from the working directory
Resolve(p) == abspath(p)

KindAt(at) == IF at \in DOMAIN fs THEN fs[at].kind ELSE "absent"
isfile(p) == KindAt(Resolve(p)) = "file"
isdir(p) == KindAt(Resolve(p)) = "dir"

\* with open(p, "r", encoding=enc) as f: f.read()
ReadOk(text) == [status |-> "ok", text |-> text]
ReadFailed(why) == [status |-> why, text |-> <<>>]

read_text(p, enc) ==
    LET at == Resolve(p)
    IN  IF at \notin DOMAIN fs \/ fs[at].kind # "file" \/ ~fs[at].readable
        THEN ReadFailed("OSError")
        ELSE LET d == decode(enc, fs[at].data)
             IN  IF d.ok THEN ReadOk(translate_newlines(d.text))
                 ELSE ReadFailed("UnicodeDecodeError")

\* os.listdir(folder): the names, in the order the system returns them
listdir_names(folder) ==
    {basename(q) : q \in {r \in DOMAIN fs : r # <<"/">> /\ dirname(r) = Resolve(folder)}}

\* ------------------------------------------------------------------------
\* TextFileConcatenatorGUI.parse_file_list
\* ------------------------------------------------------------------------
norm(p) == normcase(normpath(abspath(p)))

EmptyReport ==
    [added_paths |-> <<>>, already_present |-> <<>>,
     not_found |-> <<>>, skipped_not_allowed |-> <<>>]

\* the encodings tried, in order
encodings == <<"utf-8-sig", preferred, "cp1252", "latin-1">>

\* the loop without its break: every encoding is tried and the lines of the
\* last one, latin-1, are kept
try_encodings_no_break(lp, k, last_err) ==
    LET r == read_text(lp, encodings[Len(encodings)])
    IN  IF r.status = "ok"
        THEN [raised |-> FALSE, last_err |-> FALSE, lines |-> readlines(r.text)]
        ELSE [raised |-> TRUE, last_err |-> last_err, lines |-> <<>>]

\* the loop over the encodings from position k on: the exception that
\* leaves the function, or last_err and lines as the loop leaves them
RECURSIVE try_encodings(_, _, _)
try_encodings(lp, k, last_err) ==
    IF k > Len(encodings)
    THEN [raised |-> FALSE, last_err |-> last_err, lines |-> <<>>]
    ELSE LET r == read_text(lp, encodings[k])
         IN  IF r.status = "ok"
             THEN [raised |-> FALSE, last_err |-> FALSE, lines |-> readlines(r.text)]
             ELSE IF r.status = "UnicodeDecodeError"
             THEN try_encodings(lp, k + 1, TRUE)
             ELSE [raised |-> TRUE, last_err |-> last_err, lines |-> <<>>]

read_list(lp) == try_encodings(lp, 1, FALSE)

\* the line without one pair of surrounding quotes
strip_quotes(line) ==
    IF \/ (startswith(line, "\"") /\ endswith(line, "\""))
       \/ (startswith(line, "'") /\ endswith(line, "'"))
    THEN SubSeq(line, 2, Len(line) - 1)
    ELSE line

\* the line after quote stripping and expansion: what the loop calls line
\* from there on
expand_line(stripped) == expandvars(expanduser(strip_quotes(stripped)))

\* the resolved candidate of an expanded line
resolve_candidate(base_dir, line) ==
    abspath(normpath(IF ~isabs(line) THEN path_join(base_dir, line) ELSE line))

\* the loop body with the continue after skipped_not_allowed.append left
\* out: a rejected line goes on to the existence check
dispose_no_continue(rep, line, candidate, existing) ==
    LET rep1 == IF ~is_allowed(candidate)
                THEN [rep EXCEPT !.skipped_not_allowed = Append(@, line)]
                ELSE rep
    IN  IF ~isfile(candidate)
        THEN [rep1 EXCEPT !.not_found = Append(@, line)]
        ELSE IF \/ norm(candidate) \in existing
                \/ \E i \in DOMAIN rep.added_paths :
                       norm(rep.added_paths[i]) = norm(candidate)
        THEN [rep1 EXCEPT !.already_present = Append(@, candidate)]
        ELSE [rep1 EXCEPT !.added_paths = Append(@, candidate)]

\* the loop body with the duplicate check against added_paths only
dispose_ignores_existing(rep, line, candidate, existing) ==
    IF ~is_allowed(candidate)
    THEN [rep EXCEPT !.skipped_not_allowed = Append(@, line)]
    ELSE IF ~isfile(candidate)
    THEN [rep EXCEPT !.not_found = Append(@, line)]
    ELSE IF \E i \in DOMAIN rep.added_paths :
                norm(rep.added_paths[i]) = norm(candidate)
    THEN [rep EXCEPT !.already_present = Append(@, candidate)]
    ELSE [rep EXCEPT !.added_paths = Append(@, candidate)]

\* the four appends of the loop body
dispose(rep, line, candidate, existing) ==
    IF ~is_allowed(candidate)
    THEN [rep EXCEPT !.skipped_not_allowed = Append(@, line)]
    ELSE IF ~isfile(candidate)
    THEN [rep EXCEPT !.not_found = Append(@, line)]
    ELSE IF \/ norm(candidate) \in existing
            \/ \E i \in DOMAIN rep.added_paths :
                   norm(rep.added_paths[i]) = norm(candidate)
    THEN [rep EXCEPT !.already_present = Append(@, candidate)]
    ELSE [rep EXCEPT !.added_paths = Append(@, candidate)]

\* one iteration of the loop over the lines
parse_line(rep, raw, base_dir, existing) ==
    LET stripped == strip(raw)
    IN  IF stripped = <<>> THEN rep
        ELSE IF startswith(stripped, "#") \/ startswith(stripped, ";") THEN rep
        ELSE LET line == expand_line(stripped)
             IN  dispose(rep, line, resolve_candidate(base_dir, line), existing)

RECURSIVE parse_lines(_, _, _)
parse_lines(lines, base_dir, existing) ==
    IF lines = <<>> THEN EmptyReport
    ELSE parse_line(parse_lines(Upto(lines, Len(lines) - 1), base_dir, existing),
                    lines[Len(lines)], base_dir, existing)

\* the call: what it raises or shows, and the report it returns
parse_file_list(lp, selected) ==
    LET existing == {norm(selected[i]) : i \in DOMAIN selected}
        base_dir == dirname(lp)
        got == read_list(lp)
    IN  IF got.raised
        THEN [outcome |-> "raised", existing |-> existing, lines |-> <<>>,
              report |-> EmptyReport]
        ELSE IF got.last_err /\ got.lines = <<>>
        THEN [outcome |-> "showerror", existing |-> existing, lines |-> <<>>,
              report |-> EmptyReport]
        ELSE [outcome |-> "returned", existing |-> existing, lines |-> got.lines,
              report |-> parse_lines(got.lines, base_dir, existing)]

\* ------------------------------------------------------------------------
\* The listbox widget: rows and their selection marks (indices 0-based,
\* as tkinter counts them)
\* ------------------------------------------------------------------------
Row(item) == [item |-> item, selected |-> FALSE]

\* file_listbox.get(0, END)
listbox_items(lb) == [i \in DOMAIN lb |-> lb[i].item]

\* the members of a set of numbers in ascending order
RECURSIVE ascending(_)
ascending(S) ==
    IF S = {} THEN <<>> ELSE <<SetMin(S)>> \o ascending(S \ {SetMin(S)})

\* list(file_listbox.curselection())
curselection(lb) == ascending({i - 1 : i \in {j \in DOMAIN lb : lb[j].selected}})

reversed(seq) == [i \in DOMAIN seq |-> seq[Len(seq) + 1 - i]]

\* file_listbox.delete(index) / del selected_files[index]
delete_at(seq, index) == Upto(seq, index) \o From(seq, index + 2)

\* file_listbox.insert(index, item): the new row is not selected
insert_at(lb, index, item) ==
    IF index >= Len(lb) THEN Append(lb, Row(item))
    ELSE Upto(lb, index) \o <<Row(item)>> \o From(lb, index + 1)

\* file_listbox.selection_clear(index) / selection_set(index)
selection_mark(lb, index, on) ==
    IF index + 1 \in DOMAIN lb THEN [lb EXCEPT ![index + 1].selected = on] ELSE lb

\* selected_files[i], selected_files[j] = selected_files[j], selected_files[i]
swap(seq, i, j) == [seq EXCEPT ![i + 1] = seq[j + 1], ![j + 1] = seq[i + 1]]

\* ------------------------------------------------------------------------
\* The handlers of TextFileConcatenatorGUI
\* ------------------------------------------------------------------------
\* what the file dialogs can answer
PickPaths == {P_a, <<"/", "d", "/", ".", "/", "a", ".", "c">>, P_b, P_x, P_f10}
ListPaths == {P_m1, P_m2, P_m3, P_m4, P_m5, P_none}

SeqsUpTo(S, n) == UNION {[1..k -> S] : k \in 0..n}

\* the loop of add_files over the chosen files
RECURSIVE add_files_loop(_, _)
add_files_loop(files, st) ==
    IF files = <<>> THEN st
    ELSE LET file_path == Head(files)
         IN  IF ~is_allowed(file_path)
             THEN add_files_loop(Tail(files), [st EXCEPT !.skipped = @ + 1])
             ELSE IF file_path \notin Range(st.selected)
             THEN add_files_loop(Tail(files),
                      [st EXCEPT !.selected = Append(@, file_path),
                                 !.lb = Append(@, Row(file_path))])
             ELSE add_files_loop(Tail(files), st)

\* the loop of remove_selected over the reversed selection
RECURSIVE remove_loop(_, _)
remove_loop(indices, st) ==
    IF indices = <<>> THEN st
    ELSE remove_loop(Tail(indices),
             [selected |-> delete_at(st.selected, Head(indices)),
              lb |-> delete_at(st.lb, Head(indices))])

\* the loops moving the rows of the listbox only: selected_files is left
\* as it was
RECURSIVE move_loop_listbox_only(_, _, _)
move_loop_listbox_only(indices, step, st) ==
    IF indices = <<>> THEN st
    ELSE LET index == Head(indices)
             item == st.lb[index + 1].item
             moved == insert_at(delete_at(st.lb, index), index + step, item)
         IN  move_loop_listbox_only(Tail(indices), step,
                 [selected |-> st.selected,
                  lb |-> selection_mark(selection_mark(moved, index, FALSE),
                                        index + step, TRUE)])

\* the loops of move_up (step = -1) and move_down (step = 1)
RECURSIVE move_loop(_, _, _)
move_loop(indices, step, st) ==
    IF indices = <<>> THEN st
    ELSE LET index == Head(indices)
             item == st.lb[index + 1].item
             moved == insert_at(delete_at(st.lb, index), index + step, item)
         IN  move_loop(Tail(indices), step,
                 [selected |-> swap(st.selected, index, index + step),
                  lb |-> selection_mark(selection_mark(moved, index, FALSE),
                                        index + step, TRUE)])

Widgets == [selected |-> selected_files, lb |-> listbox]

\* a handler that imports no list leaves no list_path, lines or result
no_import ==
    /\ list_path' = <<>>
    /\ p_existing' = {}
    /\ p_lines' = <<>>
    /\ result' = EmptyReport

\* the radio buttons set mode_var and call on_mode_change
on_mode_change(mode) ==
    /\ mode_var' = mode
    /\ IF mode = "folder"
       THEN listbox' = <<>> /\ selected_files' = <<>>
       ELSE UNCHANGED <<listbox, selected_files>>
    /\ message' = <<>>
    /\ no_import

\* the user selects rows of the listbox (selectmode EXTENDED)
select_rows(rows) ==
    /\ mode_var = "files"
    /\ listbox' = [i \in DOMAIN listbox |-> [listbox[i] EXCEPT !.selected = (i \in rows)]]
    /\ listbox' # listbox
    /\ UNCHANGED <<mode_var, selected_files, list_path, p_existing, p_lines, result, message>>

add_files(files) ==
    /\ mode_var = "files"
    /\ LET st == add_files_loop(files,
                     [selected |-> selected_files, lb |-> listbox, skipped |-> 0])
       IN  /\ selected_files' = st.selected
           /\ listbox' = st.lb
           /\ message' = IF st.skipped > 0 THEN <<"Some files skipped">> ELSE <<>>
    /\ no_import
    /\ UNCHANGED mode_var

\* the dialog was cancelled: list_path is empty
add_files_from_list_cancelled ==
    /\ mode_var = "files"
    /\ message' = <<>>
    /\ no_import
    /\ UNCHANGED <<mode_var, selected_files, listbox>>

add_files_from_list(lp) ==
    /\ mode_var = "files"
    /\ list_path' = lp
    /\ LET got == parse_file_list(lp, selected_files)
       IN  /\ p_existing' = got.existing
           /\ p_lines' = got.lines
           /\ IF got.outcome = "raised"
              THEN /\ message' = <<"exception">>
                   /\ result' = EmptyReport
                   /\ UNCHANGED <<selected_files, listbox>>
              ELSE /\ result' = got.report
                   /\ selected_files' = selected_files \o got.report.added_paths
                   /\ listbox' = listbox \o [i \in DOMAIN got.report.added_paths |->
                                               Row(got.report.added_paths[i])]
                   /\ message' = IF got.outcome = "showerror"
                                 THEN <<"Error", "Import summary">>
                                 ELSE <<"Import summary">>
    /\ UNCHANGED mode_var

remove_selected ==
    /\ mode_var = "files"
    /\ LET st == remove_loop(reversed(curselection(listbox)), Widgets)
       IN  selected_files' = st.selected /\ listbox' = st.lb
    /\ message' = <<>>
    /\ no_import
    /\ UNCHANGED mode_var

clear_all ==
    /\ mode_var = "files"
    /\ listbox' = <<>>
    /\ selected_files' = <<>>
    /\ message' = <<>>
    /\ no_import
    /\ UNCHANGED mode_var

move_up ==
    /\ mode_var = "files"
    /\ LET selected_indices == curselection(listbox)
           st == IF selected_indices = <<>> \/ selected_indices[1] = 0
                 THEN Widgets
                 ELSE move_loop(selected_indices, -1, Widgets)
       IN  selected_files' = st.selected /\ listbox' = st.lb
    /\ message' = <<>>
    /\ no_import
    /\ UNCHANGED mode_var

move_down ==
    /\ mode_var = "files"
    /\ LET selected_indices == curselection(listbox)
           st == IF \/ selected_indices = <<>>
                    \/ selected_indices[Len(selected_indices)] = Len(selected_files) - 1
                 THEN Widgets
                 ELSE move_loop(reversed(selected_indices), 1, Widgets)
       IN  selected_files' = st.selected /\ listbox' = st.lb
    /\ message' = <<>>
    /\ no_import
    /\ UNCHANGED mode_var

sort_files ==
    /\ mode_var = "files"
    /\ IF selected_files = <<>>
       THEN UNCHANGED <<selected_files, listbox>>
       ELSE /\ selected_files' = natsorted(selected_files)
            /\ listbox' = [i \in DOMAIN selected_files |-> Row(selected_files'[i])]
    /\ message' = <<>>
    /\ no_import
    /\ UNCHANGED mode_var

\* ------------------------------------------------------------------------
\* concatenate_file_list and concatenate_text_files
\* ------------------------------------------------------------------------
\* f"--- File: {filename} ---\n\n"
header(filename) ==
    <<"-", "-", "-", " ", "F", "i", "l", "e", ":", " ">> \o filename
    \o <<" ", "-", "-", "-", "\n", "\n">>

\* the loop keeping a set of the paths done: a path listed twice is read
\* once
RECURSIVE concat_loop_once(_)
concat_loop_once(paths) ==
    IF paths = <<>> THEN [content |-> <<>>, printed |-> <<>>]
    ELSE LET before == concat_loop_once(Upto(paths, Len(paths) - 1))
             file_path == paths[Len(paths)]
             filename == basename(file_path)
             r == read_text(file_path, "utf-8")
         IN  IF file_path \in Range(Upto(paths, Len(paths) - 1))
             THEN before
             ELSE IF r.status = "ok"
             THEN [before EXCEPT !.content =
                       @ \o header(filename) \o r.text \o <<"\n", "\n">>]
             ELSE [before EXCEPT !.printed = Append(@, file_path)]

\* the loop with the try around the whole loop instead of around one file:
\* the first failure ends it
RECURSIVE concat_loop_abort(_)
concat_loop_abort(paths) ==
    IF paths = <<>> THEN [content |-> <<>>, printed |-> <<>>]
    ELSE LET before == concat_loop_abort(Upto(paths, Len(paths) - 1))
             file_path == paths[Len(paths)]
             filename == basename(file_path)
             r == read_text(file_path, "utf-8")
         IN  IF before.printed # <<>>
             THEN before
             ELSE IF r.status = "ok"
             THEN [before EXCEPT !.content =
                       @ \o header(filename) \o r.text \o <<"\n", "\n">>]
             ELSE [before EXCEPT !.printed = Append(@, file_path)]

\* the loop over file_paths: output_content joined, and the paths printed
\* as unreadable
RECURSIVE concat_loop(_)
concat_loop(paths) ==
    IF paths = <<>> THEN [content |-> <<>>, printed |-> <<>>]
    ELSE LET before == concat_loop(Upto(paths, Len(paths) - 1))
             file_path == paths[Len(paths)]
             filename == basename(file_path)
             r == read_text(file_path, "utf-8")
         IN  IF r.status = "ok"
             THEN [before EXCEPT !.content =
                       @ \o header(filename) \o r.text \o <<"\n", "\n">>]
             ELSE [before EXCEPT !.printed = Append(@, file_path)]

\* the call with the output opened for writing before the list is looked at
concatenate_file_list_open_first(paths, out) ==
    LET opened == IF out.writable
                  THEN [exists |-> TRUE, writable |-> TRUE, text |-> <<>>]
                  ELSE out
    IN  IF ~out.writable
        THEN [error |-> "IOError", output |-> out, console |-> <<>>,
              file_paths |-> paths]
        ELSE IF paths = <<>>
        THEN [error |-> "ValueError", output |-> opened, console |-> <<>>,
              file_paths |-> paths]
        ELSE LET done == concat_loop(paths)
             IN  [error |-> "none",
                  output |-> [opened EXCEPT !.text = done.content],
                  console |-> done.printed,
                  file_paths |-> paths]

\* the call: the exception raised, the output file and the prints after
\* it, and the list it was given
concatenate_file_list(paths, out) ==
    IF paths = <<>>
    THEN [error |-> "ValueError", output |-> out, console |-> <<>>,
          file_paths |-> paths]
    ELSE LET done == concat_loop(paths)
         IN  IF ~out.writable
             THEN [error |-> "IOError", output |-> out, console |-> done.printed,
                   file_paths |-> paths]
             ELSE [error |-> "none",
                   output |-> [exists |-> TRUE, writable |-> TRUE,
                               text |-> done.content],
                   console |-> done.printed,
                   file_paths |-> paths]

\* the orders in which os.listdir may return the names
RECURSIVE Orderings(_)
Orderings(S) ==
    IF S = {} THEN {<<>>}
    ELSE UNION {{<<x>> \o rest : rest \in Orderings(S \ {x})} : x \in S}

\* the files concatenate_text_files finds in a listing
listed_files(folder, listing) ==
    SelectSeq(listing, LAMBDA f : is_allowed(f) /\ isfile(path_join(folder, f)))

\* the list concatenate_text_files hands on
folder_file_paths(folder, listing) ==
    LET files == natsorted(listed_files(folder, listing))
    IN  [i \in DOMAIN files |-> path_join(folder, files[i])]

\* the call, given the order of the listing
concatenate_text_files(folder, listing, out) ==
    IF ~isdir(folder)
    THEN [error |-> "ValueError", output |-> out, console |-> <<>>,
          file_paths |-> <<>>]
    ELSE concatenate_file_list(folder_file_paths(folder, listing), out)

\* the arguments the callers pass
PathArgs == {P_a, P_b, P_f2, <<"/", "d", "/", "q", ".", "c">>}
FolderArgs == {<<"/", "d">>, <<"/", "e">>, P_a, <<"/", "n">>}

NoOutput == [exists |-> FALSE, writable |-> TRUE, text |-> <<>>]
OldOutput == [exists |-> TRUE, writable |-> TRUE, text |-> <<"o", "l", "d">>]
LockedOutput == [exists |-> TRUE, writable |-> FALSE, text |-> <<"o", "l", "d">>]

call_concatenate_file_list(paths) ==
    LET r == concatenate_file_list(paths, output)
    IN  /\ fn' = "concatenate_file_list"
        /\ folder_path' = <<>>
        /\ file_paths' = paths
        /\ error' = r.error
        /\ output' = r.output
        /\ console' = r.console

call_concatenate_text_files(folder, listing) ==
    LET r == concatenate_text_files(folder, listing, output)
    IN  /\ fn' = "concatenate_text_files"
        /\ folder_path' = folder
        /\ file_paths' = r.file_paths
        /\ error' = r.error
        /\ output' = r.output
        /\ console' = r.console

\* between calls somebody else removes, replaces or locks the output file:
\* no call has returned since
touch_output(out) ==
    /\ output' = out
    /\ output' # output
    /\ fn' = "none"
    /\ folder_path' = <<>>
    /\ file_paths' = <<>>
    /\ error' = "none"
    /\ console' = <<>>

\* ------------------------------------------------------------------------
\* The classifier and the sort on their own
\* ------------------------------------------------------------------------
\* directory parts and base names given to is_allowed
DirParts == {<<>>, <<"/", "d", "/">>, <<"A", ".", "c", "/">>}
NameChars == {"C", ".", "z"}
KnownNames == {
    <<"L", "I", "C", "E", "N", "S", "E">>,
    <<"m", "a", "k", "e", "f", "i", "l", "e">>,
    <<"n", "o", "t", "e", "s", ".", "M", "D">>,
    <<"i", "m", "a", "g", "e", ".", "p", "n", "g">>,
    <<"a", "r", "c", "h", "i", "v", "e", ".", "t", "a", "r", ".", "g", "z">>,
    <<".", "e", "n", "v">>,
    <<".", "t", "x", "t">>,
    <<".", "G", "i", "t", "I", "g", "n", "o", "r", "e">>,
    <<"l", "i", "c", "e", "n", "s", "e", ".">>
}
NameInputs == SeqsUpTo(NameChars, MaxName) \cup KnownNames

\* the call is_allowed(path)
classify ==
    /\ pc = "call"
    /\ allowed' = is_allowed(path)
    /\ pc' = "return"
    /\ UNCHANGED path

\* the names handed to natsorted
SortNames == {
    <<"f", "1", ".", "c">>, <<"f", "2", ".", "c">>, <<"f", "1", "0", ".", "c">>,
    <<"f", "0", "2", ".", "c">>, <<"F", "1", ".", "c">>, <<"a", ".", "c">>,
    <<"a", "1", "0", "b">>, <<"a", "9", "b">>
}

\* the call natsorted(names)
sort_names ==
    /\ pc = "call"
    /\ sorted_names' = natsorted(names)
    /\ pc' = "return"
    /\ UNCHANGED names

\* ------------------------------------------------------------------------
\* Specifications
\* ------------------------------------------------------------------------
GuiInit ==
    /\ mode_var = "folder"
    /\ selected_files = <<>>
    /\ listbox = <<>>
    /\ list_path = <<>>
    /\ p_existing = {}
    /\ p_lines = <<>>
    /\ result = EmptyReport
    /\ message = <<>>

ConcatInit ==
    /\ fn = "none"
    /\ folder_path = <<>>
    /\ file_paths = <<>>
    /\ output \in {NoOutput, OldOutput, LockedOutput}
    /\ error = "none"
    /\ console = <<>>

AllowedInit == path = <<>> /\ allowed = FALSE

SortInit == names = <<>> /\ sorted_names = <<>>

\* the window
Init ==
    /\ fs = FsGood
    /\ preferred \in Encodings
    /\ GuiInit
    /\ ConcatInit /\ output = NoOutput
    /\ AllowedInit
    /\ SortInit
    /\ pc = "idle"

UNCHANGED_but_gui == UNCHANGED <<env_vars, concat_vars, allowed_vars, sort_vars, pc>>

\* the handlers of the selection
Next ==
    \/ \E mode \in {"folder", "files"} : on_mode_change(mode) /\ UNCHANGED_but_gui
    \/ \E rows \in SUBSET DOMAIN listbox : select_rows(rows) /\ UNCHANGED_but_gui
    \/ \E files \in SeqsUpTo(PickPaths, MaxPick) :
          add_files(files) /\ Len(selected_files') <= MaxSel /\ UNCHANGED_but_gui
    \/ add_files_from_list_cancelled /\ UNCHANGED_but_gui
    \/ \E lp \in ListPaths :
          add_files_from_list(lp) /\ Len(selected_files') <= MaxSel /\ UNCHANGED_but_gui
    \/ remove_selected /\ UNCHANGED_but_gui
    \/ clear_all /\ UNCHANGED_but_gui
    \/ move_up /\ UNCHANGED_but_gui
    \/ move_down /\ UNCHANGED_but_gui
    \/ sort_files /\ UNCHANGED_but_gui

Spec == Init /\ [][Next]_vars

\* the handlers again, on longer selections: fewer files and lists to pick
\* from, and pc the move handler that has just returned, if one has
RowPicks == {P_a, P_b, P_f2}
RowLists == {P_m3, P_none}

InitRows ==
    /\ fs = FsGood
    /\ preferred = "utf-8"
    /\ GuiInit
    /\ ConcatInit /\ output = NoOutput
    /\ AllowedInit
    /\ SortInit
    /\ pc = "idle"

UNCHANGED_but_rows == UNCHANGED <<env_vars, concat_vars, allowed_vars, sort_vars>>

NextRows ==
    \/ \E mode \in {"folder", "files"} :
          on_mode_change(mode) /\ pc' = "idle" /\ UNCHANGED_but_rows
    \/ \E rows \in SUBSET DOMAIN listbox :
          select_rows(rows) /\ pc' = "idle" /\ UNCHANGED_but_rows
    \/ \E files \in SeqsUpTo(RowPicks, MaxPick) :
          /\ add_files(files) /\ Len(selected_files') <= MaxRows
          /\ pc' = "idle" /\ UNCHANGED_but_rows
    \/ add_files_from_list_cancelled /\ pc' = "idle"
          /\ UNCHANGED_but_rows
    \/ \E lp \in RowLists :
          /\ add_files_from_list(lp) /\ Len(selected_files') <= MaxRows
          /\ pc' = "idle" /\ UNCHANGED_but_rows
    \/ remove_selected /\ pc' = "idle" /\ UNCHANGED_but_rows
    \/ clear_all /\ pc' = "idle" /\ UNCHANGED_but_rows
    \/ move_up /\ pc' = "move_up" /\ UNCHANGED_but_rows
    \/ move_down /\ pc' = "move_down" /\ UNCHANGED_but_rows
    \/ sort_files /\ pc' = "idle" /\ UNCHANGED_but_rows

SpecRows == InitRows /\ [][NextRows]_vars

\* the two concatenation entry points, called with any arguments on any of
\* the filesystems
InitConcat ==
    /\ fs \in FsChoices
    /\ preferred = "utf-8"
    /\ GuiInit
    /\ ConcatInit
    /\ AllowedInit
    /\ SortInit
    /\ pc = "idle"

UNCHANGED_but_concat == UNCHANGED <<env_vars, gui_vars, allowed_vars, sort_vars, pc>>

NextConcat ==
    \/ \E paths \in SeqsUpTo(PathArgs, MaxList) :
          call_concatenate_file_list(paths) /\ UNCHANGED_but_concat
    \/ \E folder \in FolderArgs : \E listing \in Orderings(listdir_names(folder)) :
          call_concatenate_text_files(folder, listing) /\ UNCHANGED_but_concat
    \/ \E out \in {NoOutput, OldOutput, LockedOutput} :
          touch_output(out) /\ UNCHANGED_but_concat

SpecConcat == InitConcat /\ [][NextConcat]_vars

\* is_allowed applied to a path drawn from the inputs
InitAllowed ==
    /\ fs = FsGood
    /\ preferred = "utf-8"
    /\ GuiInit
    /\ ConcatInit /\ output = NoOutput
    /\ \E d \in DirParts : \E n \in NameInputs : path = d \o n
    /\ allowed = FALSE
    /\ pc = "call"
    /\ SortInit

NextAllowed ==
    classify /\ UNCHANGED <<env_vars, gui_vars, concat_vars, sort_vars>>

SpecAllowed == InitAllowed /\ [][NextAllowed]_vars

\* natsorted applied to a sequence of names drawn from the inputs
InitSort ==
    /\ fs = FsGood
    /\ preferred = "utf-8"
    /\ GuiInit
    /\ ConcatInit /\ output = NoOutput
    /\ AllowedInit
    /\ names \in SeqsUpTo(SortNames, MaxSortLen)
    /\ sorted_names = <<>>
    /\ pc = "call"

NextSort ==
    sort_names /\ UNCHANGED <<env_vars, gui_vars, concat_vars, allowed_vars>>

SpecSort == InitSort /\ [][NextSort]_vars

\* ------------------------------------------------------------------------
\* Properties of parse_file_list and the import
\* ------------------------------------------------------------------------
\* the last handler was an import whose parse_file_list returned a report
Imported == list_path # <<>> /\ message = <<"Import summary">>

\* a line that is not blank after trimming and is no comment
Counted(raw) ==
    LET t == strip(raw) IN t # <<>> /\ t[1] \notin {"#", ";"}

ReportFields == {"added_paths", "already_present", "not_found", "skipped_not_allowed"}

ReportTotal(rep) ==
    Len(rep.added_paths) + Len(rep.already_present)
    + Len(rep.not_found) + Len(rep.skipped_not_allowed)

\* the report as it stands after the first n lines of the import
ReportAfter(n) == parse_lines(Upto(p_lines, n), dirname(list_path), p_existing)

\* exactly one of the four sequences has one more entry, the rest are as
\* they were
GrewByOne(before, after) ==
    \E f \in ReportFields :
        /\ Len(after[f]) = Len(before[f]) + 1
        /\ Upto(after[f], Len(before[f])) = before[f]
        /\ \A g \in ReportFields \ {f} : after[g] = before[g]

\* C1: parse_file_list puts every line that is not blank after trimming and
\* is no comment into exactly one of the four sequences of the report, and a
\* blank or comment line into none; so the four lengths add up to no more
\* than the number of such lines and no line is counted twice.
C1_EveryLineInExactlyOne ==
    Imported =>
        /\ result = ReportAfter(Len(p_lines))
        /\ \A n \in 1..Len(p_lines) :
               IF Counted(p_lines[n])
               THEN GrewByOne(ReportAfter(n - 1), ReportAfter(n))
               ELSE ReportAfter(n) = ReportAfter(n - 1)
        /\ ReportTotal(result) <= Cardinality({n \in DOMAIN p_lines : Counted(p_lines[n])})

\* the import of M2 into an empty selection: six counted lines, and every
\* one of the four sequences has an entry
C1_Witness ==
    /\ Imported
    /\ list_path = P_m2
    /\ Len(p_lines) = 6
    /\ Len(result.added_paths) = 2
    /\ Len(result.already_present) = 1
    /\ Len(result.not_found) = 1
    /\ Len(result.skipped_not_allowed) = 2

\* ------------------------------------------------------------------------
\* Properties of concatenate_file_list and concatenate_text_files
\* ------------------------------------------------------------------------
\* the file at p can be opened and is valid UTF-8
Readable(p) == read_text(p, "utf-8").status = "ok"

\* the full content of the file at p: its bytes as UTF-8 text
FullContent(p) == decode("utf-8", fs[abspath(p)].data).text

\* the content with every "\r\n" and every other "\r" replaced by "\n"
RECURSIVE NewlinesAsLF(_)
NewlinesAsLF(text) ==
    IF text = <<>> THEN <<>>
    ELSE IF Head(text) = "\r" /\ Len(text) >= 2 /\ text[2] = "\n"
    THEN <<"\n">> \o NewlinesAsLF(Tail(Tail(text)))
    ELSE IF Head(text) = "\r"
    THEN <<"\n">> \o NewlinesAsLF(Tail(text))
    ELSE <<Head(text)>> \o NewlinesAsLF(Tail(text))

\* '--- File: <basename> ---' + '\n\n' + content + '\n\n'
BlockOf(p, content) ==
    <<"-", "-", "-", " ", "F", "i", "l", "e", ":", " ">> \o basename(p)
    \o <<" ", "-", "-", "-">> \o <<"\n", "\n">> \o content \o <<"\n", "\n">>

Block(p) == BlockOf(p, NewlinesAsLF(FullContent(p)))

\* the blocks of the readable paths, in the order of the list
RECURSIVE Blocks(_)
Blocks(paths) ==
    IF paths = <<>> THEN <<>>
    ELSE (IF Readable(Head(paths)) THEN Block(Head(paths)) ELSE <<>>)
         \o Blocks(Tail(paths))

\* the same with the content of each file as it is in the file
RECURSIVE RawBlocks(_)
RawBlocks(paths) ==
    IF paths = <<>> THEN <<>>
    ELSE (IF Readable(Head(paths))
          THEN BlockOf(Head(paths), FullContent(Head(paths))) ELSE <<>>)
         \o RawBlocks(Tail(paths))

\* C2 (as amended): the text concatenate_file_list writes is exactly the
\* blocks of the paths it could read, one block per occurrence of a path,
\* in the order of the list, and nothing else, where the content in a block
\* is the file's content with every "\r\n" and lone "\r" replaced by "\n".
C2_OutputIsTheBlocksInOrder ==
    (fn # "none" /\ error = "none") =>
        /\ file_paths # <<>>
        /\ output.exists
        /\ output.text = Blocks(file_paths)

\* C2 (as stated): the text written is exactly the blocks of the readable
\* paths in order, each holding the full content of its file unchanged.
C2_OutputIsTheRawBlocks ==
    (fn # "none" /\ error = "none") =>
        /\ file_paths # <<>>
        /\ output.exists
        /\ output.text = RawBlocks(file_paths)

\* /d/a.c listed twice gives its block twice
C2_Witness ==
    /\ fn = "concatenate_file_list"
    /\ error = "none"
    /\ file_paths = <<P_a, P_a>>
    /\ output.text = RawBlocks(file_paths)
    /\ output.text =
           <<"-", "-", "-", " ", "F", "i", "l", "e", ":", " ", "a", ".", "c",
             " ", "-", "-", "-", "\n", "\n", "A", "\n", "\n",
             "-", "-", "-", " ", "F", "i", "l", "e", ":", " ", "a", ".", "c",
             " ", "-", "-", "-", "\n", "\n", "A", "\n", "\n">>

\* C3: a file that cannot be read (missing, unreadable, not UTF-8) never
\* ends the run: with a non-empty list and a writable output path the call
\* raises nothing, the output is written and is what the list without the
\* failing files gives, and each failing path is reported once, in order;
\* when every file fails the output is written empty.
C3_ReadFailureNeverAborts ==
    (fn = "concatenate_file_list" /\ file_paths # <<>> /\ output.writable) =>
        LET good == SelectSeq(file_paths, Readable)
            bad == SelectSeq(file_paths, LAMBDA q : ~Readable(q))
        IN  /\ error = "none"
            /\ output.exists
            /\ console = bad
            /\ output.text = concat_loop(good).content
            /\ (good = <<>> => output.text = <<>>)

\* /d/b.h is not valid UTF-8 and comes first: /d/a.c after it is written
C3_Witness ==
    /\ fs = FsUndecodable
    /\ fn = "concatenate_file_list"
    /\ file_paths = <<P_b, P_a>>
    /\ error = "none"
    /\ console = <<P_b>>
    /\ output.exists
    /\ output.text = Block(P_a)

\* the directory holds no regular file of an allowed type
NoAllowedFile(folder) ==
    ~\E q \in DOMAIN fs :
        /\ q # <<"/">>
        /\ dirname(q) = abspath(folder)
        /\ fs[q].kind = "file"
        /\ is_allowed(q)

\* C4: a call that fails validation leaves the output path as it was:
\* concatenate_file_list with an empty list, and concatenate_text_files with
\* a path that is no directory or a directory without an allowed regular
\* file, raise ValueError, and a call that raises ValueError neither changes
\* nor creates the output file.
C4_ValidationFailureLeavesOutput ==
    [][fn' # "none" =>
         /\ (fn' = "concatenate_file_list" /\ file_paths' = <<>>)
                => error' = "ValueError"
         /\ (fn' = "concatenate_text_files"
                /\ (~isdir(folder_path') \/ NoAllowedFile(folder_path')))
                => error' = "ValueError"
         /\ error' = "ValueError" => output' = output]_vars

\* /e is a directory without an allowed regular file, and an output file
\* was there before the call
C4_Witness ==
    /\ fn = "concatenate_text_files"
    /\ folder_path = <<"/", "e">>
    /\ error = "ValueError"
    /\ output = OldOutput

\* ------------------------------------------------------------------------
\* Properties of the selection and the import
\* ------------------------------------------------------------------------
\* C5: no two entries of the selection are the same file reference, that
\* is, have the same normcase(normpath(abspath(p))), after any sequence of
\* the handlers from the empty selection.
C5_NoDuplicateInSelection ==
    \A i, j \in DOMAIN selected_files :
        i # j => norm(selected_files[i]) # norm(selected_files[j])

\* the number of entries of seq equal to x
CountIn(seq, x) == Cardinality({i \in DOMAIN seq : seq[i] = x})

\* C6: importing the list again right after an import adds nothing: the
\* second report has no added path, has in already_present every entry the
\* first has in added_paths or already_present, and has the first report's
\* not_found and skipped_not_allowed.
C6_SecondImportAddsNothing ==
    Imported =>
        LET second == parse_file_list(list_path, selected_files)
            first_in == result.added_paths \o result.already_present
        IN  /\ second.outcome = "returned"
            /\ second.report.added_paths = <<>>
            /\ second.report.not_found = result.not_found
            /\ second.report.skipped_not_allowed = result.skipped_not_allowed
            /\ Len(second.report.already_present) = Len(first_in)
            /\ \A c \in Range(first_in) :
                   CountIn(second.report.already_present, c) = CountIn(first_in, c)

\* M1 imported a second time: both of its files are already present
C6_Witness ==
    /\ Imported
    /\ list_path = P_m1
    /\ selected_files = <<P_a, P_b>>
    /\ result.added_paths = <<>>
    /\ result.already_present = <<P_a, P_b>>
    /\ Len(result.not_found) = 1
    /\ Len(result.skipped_not_allowed) = 1

\* the trimmed texts of the lines of the list
TrimmedLines == {strip(p_lines[n]) : n \in DOMAIN p_lines}

\* C7: every entry of not_found and of skipped_not_allowed is the trimmed
\* text of a line of the list as it stood before quote stripping, expansion
\* and resolution.
C7_RejectedKeepOriginalText ==
    Imported =>
        /\ \A i \in DOMAIN result.not_found : result.not_found[i] \in TrimmedLines
        /\ \A i \in DOMAIN result.skipped_not_allowed :
               result.skipped_not_allowed[i] \in TrimmedLines

\* the encodings in the order they are to be tried
EncodingOrder == <<"utf-8-sig", preferred, "cp1252", "latin-1">>

\* the list file can be opened for reading
Openable(lp) ==
    /\ abspath(lp) \in DOMAIN fs
    /\ fs[abspath(lp)].kind = "file"
    /\ fs[abspath(lp)].readable

\* the encodings that decode the whole list file
Decoding(lp) ==
    {k \in DOMAIN EncodingOrder : decode(EncodingOrder[k], fs[abspath(lp)].data).ok}

\* C8: the lines imported are those of the first encoding, in the fixed
\* order, that decodes the whole list file, never those of an encoding that
\* failed; a list file that cannot be opened gives an exception and no
\* report.  Some encoding always decodes the file, the last one decoding
\* any bytes, so no import ends with every encoding having failed.
C8_FirstDecodingEncodingWins ==
    list_path # <<>> =>
        IF ~Openable(list_path)
        THEN /\ message = <<"exception">>
             /\ result = EmptyReport
             /\ p_lines = <<>>
        ELSE /\ Decoding(list_path) # {}
             /\ LET first == SetMin(Decoding(list_path))
                     text == decode(EncodingOrder[first], fs[abspath(list_path)].data).text
                 IN  /\ message = <<"Import summary">>
                     /\ p_lines = readlines(NewlinesAsLF(text))
                     /\ result = parse_lines(p_lines, dirname(list_path), p_existing)

\* M4 is not UTF-8: it is read in the preferred encoding, cp1251, where
\* byte 81 is a letter, not in latin-1
C8_Witness ==
    /\ list_path = P_m4
    /\ preferred = "cp1251"
    /\ message = <<"Import summary">>
    /\ Len(p_lines) = 2
    /\ p_lines[2] = <<"U+0403", ".", "c", "\n">>
    /\ result.added_paths = <<P_f2>>

\* ------------------------------------------------------------------------
\* Properties of is_allowed
\* ------------------------------------------------------------------------
\* the extension as the claim words it: from the last "." on, empty for a
\* name with no dot or whose only dot is the leading one
ExtLastDot(name) ==
    LET k == rfind(name, ".")
    IN  IF k = 0 \/ k = 1 THEN <<>> ELSE From(name, k)

\* the extension: from the last "." on, empty for a name with no dot or
\* with nothing but dots before its last dot
ExtAfterLeadingDots(name) ==
    LET k == rfind(name, ".")
    IN  IF k = 0 \/ \A i \in 1..(k - 1) : name[i] = "." THEN <<>>
        ELSE From(name, k)

\* the lowercased base name of a path
FoldedName(p) == lower(basename(p))

\* C9 (as amended): is_allowed(p) is true iff the lowercased base name of p
\* is a reserved name or its extension is in the extension set, where the
\* extension is the text from the last "." on and is empty for a base name
\* with no dot or with only dots before its last dot; so the answer is the
\* same for paths whose base names are equal ignoring case, only the final
\* suffix counts, and a bare dotfile is rejected unless it is reserved.
C9_AllowedByFoldedNameOrSuffix ==
    pc = "return" =>
        allowed = (\/ FoldedName(path) \in ALLOWED_NAMES
                   \/ ExtAfterLeadingDots(FoldedName(path)) \in ALLOWED_EXTS)

\* C9 (as stated): the same with the extension empty only for a base name
\* with no dot or whose only dot is the leading one.
C9_AllowedByLastDot ==
    pc = "return" =>
        allowed = (\/ FoldedName(path) \in ALLOWED_NAMES
                   \/ ExtLastDot(FoldedName(path)) \in ALLOWED_EXTS)

\* "..C" in a directory named like a C file: two dots lead, no extension
C9_Witness ==
    /\ pc = "return"
    /\ path = <<"A", ".", "c", "/", ".", ".", "C">>
    /\ ~allowed

\* ------------------------------------------------------------------------
\* Properties of natsorted
\* ------------------------------------------------------------------------
\* the value of a run of decimal digits
RECURSIVE DigitsValue(_, _)
DigitsValue(run, acc) ==
    IF run = <<>> THEN acc
    ELSE DigitsValue(Tail(run),
             10 * acc + (CHOOSE d \in 0..9 : DIGITS[d + 1] = Head(run)))

AllDigits(run) == \A i \in DOMAIN run : IsDigit(run[i])

\* a and b are the same but for one whole digit run, and the run of a has
\* the smaller value
SmallerNumber(a, b) ==
    \E i \in 0..Len(a) : \E la \in 1..(Len(a) - i) : \E lb \in 1..(Len(b) - i) :
        LET da == SubSeq(a, i + 1, i + la)
            db == SubSeq(b, i + 1, i + lb)
            sa == From(a, i + la + 1)
        IN  /\ Upto(a, i) = Upto(b, i)
            /\ (i > 0 => ~IsDigit(a[i]))
            /\ AllDigits(da) /\ AllDigits(db)
            /\ sa = From(b, i + lb + 1)
            /\ (sa # <<>> => ~IsDigit(sa[1]))
            /\ DigitsValue(da, 0) < DigitsValue(db, 0)

\* C10: natsorted returns a permutation of its input in which no name
\* comes after a name that differs from it only by a digit run of larger
\* value (so f1.c, f2.c, f10.c come in this order), and sorting the result
\* again gives the same sequence.
C10_NaturalOrderPermutationIdempotent ==
    pc = "return" =>
        /\ Len(sorted_names) = Len(names)
        /\ \A x \in Range(names) \cup Range(sorted_names) :
               CountIn(sorted_names, x) = CountIn(names, x)
        /\ \A i, j \in DOMAIN sorted_names :
               i < j => ~SmallerNumber(sorted_names[j], sorted_names[i])
        /\ natsorted(sorted_names) = sorted_names

\* f10.c, f2.c, f1.c come out as f1.c, f2.c, f10.c
C10_Witness ==
    /\ pc = "return"
    /\ names = << <<"f", "1", "0", ".", "c">>, <<"f", "2", ".", "c">>,
                  <<"f", "1", ".", "c">> >>
    /\ sorted_names = << <<"f", "1", ".", "c">>, <<"f", "2", ".", "c">>,
                         <<"f", "1", "0", ".", "c">> >>

\* ------------------------------------------------------------------------
\* Properties of the listbox and selected_files
\* ------------------------------------------------------------------------
\* the listbox shows selected_files: same length, same entry at each index
InSync ==
    /\ Len(listbox) = Len(selected_files)
    /\ \A i \in DOMAIN listbox : listbox[i].item = selected_files[i]

\* after holds the entries of before, each as often
SameEntries(before, after) ==
    /\ Len(after) = Len(before)
    /\ \A x \in Range(before) \cup Range(after) : CountIn(after, x) = CountIn(before, x)

\* a step of move_up or move_down only permutes the selection, and changes
\* nothing when the selected row at the top (at the bottom) blocks it
MoveStep ==
    /\ pc' \in {"move_up", "move_down"} => SameEntries(selected_files, selected_files')
    /\ (pc' = "move_up" /\ listbox # <<>> /\ listbox[1].selected)
           => UNCHANGED <<selected_files, listbox>>
    /\ (pc' = "move_down" /\ listbox # <<>> /\ listbox[Len(listbox)].selected)
           => UNCHANGED <<selected_files, listbox>>

\* C11: the listbox and selected_files hold the same sequence of paths after
\* any sequence of the handlers, with one or several rows selected, next to
\* each other or not; move_up and move_down only permute the selection and
\* change nothing when the first selected row is at the top (the last at
\* the bottom).
C11_ListboxShowsSelection == []InSync /\ [][MoveStep]_vars

\* move_up has just moved two rows of four: with the second and third row
\* selected and the first not, it was no blocked call
C11_Witness ==
    /\ pc = "move_up"
    /\ Len(selected_files) = 4
    /\ InSync
    /\ ~listbox[1].selected /\ listbox[2].selected
    /\ listbox[3].selected /\ ~listbox[4].selected

=============================================================================
